---- MODULE Spec2Model ----
(***************************************************************************)
(* A model of the amnesia cache: the Cache facade (src/lib.rs) over the    *)
(* Driver trait (src/drivers/mod.rs) and its five implementations.         *)
(* Time is counted in ticks, TicksPerSec ticks to the second, so that the  *)
(* whole-second conversions of the Redis and DynamoDB drivers are visible. *)
(***************************************************************************)
EXTENDS Integers, Sequences, FiniteSets, TLC

VARIABLES driver, prefix, cache, now, last, written, flushed, tasks

vars == <<driver, prefix, cache, now, last, written, flushed, tasks>>

(* ------------------------------ bounds --------------------------------- *)
MaxTime == 2
MaxDuration == 3
TicksPerSec == 3

(* ------------------------------ inputs --------------------------------- *)
Keys == {<<"f">>, <<"p", "f">>}
Prefixes == {<<>>, <<"p">>}
Values == {<<"b">>, <<"b", "z">>}
Durations == 1..MaxDuration
Drivers == {"memory", "database", "redis", "dynamodb", "null"}

(* ----------------------- Option and Result ----------------------------- *)
None == [some |-> FALSE]
Some(x) == [some |-> TRUE, v |-> x]
Ok(x) == [tag |-> "Ok", val |-> x]
Err(e) == [tag |-> "Err", err |-> e]
\* the payloads of Ok: (), bool, Option<T> (None, Some) and T
Unit == [unit |-> TRUE]
Bool(b) == [bool |-> b]
Value(v) == [value |-> v]

Range(s) == {s[i] : i \in 1..Len(s)}

(* HashMap / table / keyspace primitives on a function whose domain is the
   set of stored keys *)
Insert(c, k, e) == [x \in (DOMAIN c) \cup {k} |-> IF x = k THEN e ELSE c[x]]
Remove(c, k) == [x \in (DOMAIN c) \ {k} |-> c[x]]
Empty == [x \in {} |-> None]

(* --------------------------- serialization ----------------------------- *)
\* bitcode::serialize of a String: a length header followed by the bytes
bitcode_serialize(v) == <<Len(v)>> \o v
bitcode_deserialize(b) ==
    IF Len(b) >= 1 /\ b[1] = Len(b) - 1 THEN Ok(Tail(b)) ELSE Err("bitcode")

\* serde_json::to_string / from_str of a String: the text between quotes
json_to_string(v) == <<"\"">> \o v \o <<"\"">>
json_from_str(s) ==
    IF Len(s) >= 2 /\ s[1] = "\"" /\ s[Len(s)] = "\""
    THEN Ok(SubSeq(s, 2, Len(s) - 1)) ELSE Err("serde_json")

\* u64::to_string and str::parse::<u64>, on decimal digits
Digits == <<"0", "1", "2", "3", "4", "5", "6", "7", "8", "9">>
RECURSIVE to_string(_)
to_string(n) ==
    IF n < 10 THEN <<Digits[n + 1]>> ELSE to_string(n \div 10) \o <<Digits[(n % 10) + 1]>>
DigitVal(ch) == CHOOSE i \in 0..9 : Digits[i + 1] = ch
RECURSIVE parse_acc(_, _)
parse_acc(s, acc) ==
    IF s = <<>> THEN acc ELSE parse_acc(Tail(s), acc * 10 + DigitVal(Head(s)))
parse(s) ==
    IF s # <<>> /\ \A i \in 1..Len(s) : s[i] \in Range(Digits)
    THEN Ok(parse_acc(s, 0)) ELSE Err("parse")

\* Duration::as_secs and Duration::from_secs on ticks
as_secs(d) == d \div TicksPerSec
from_secs(s) == s * TicksPerSec

\* the outcome of a driver call: the store afterwards, the returned Result
\* and the backend requests that were sent
Out(c, r, b) == [cache |-> c, result |-> r, bcalls |-> b]

(* ------------------------- MemoryDriver -------------------------------- *)
\* get without the comparison of expires_at against the clock
MemoryDriverGet_NoExpiry(c, k, t) ==
    IF k \notin DOMAIN c THEN Out(c, Ok(None), <<>>)
    ELSE LET r == bitcode_deserialize(c[k].data)
         IN  IF r.tag = "Err" THEN Out(c, Err("DeserializationError"), <<>>)
             ELSE Out(c, Ok(Some(r.val)), <<>>)

MemoryDriverGet(c, k, t) ==
    IF k \notin DOMAIN c THEN Out(c, Ok(None), <<>>)
    ELSE IF c[k].expires_at.some /\ c[k].expires_at.v < t THEN Out(c, Ok(None), <<>>)
    ELSE LET r == bitcode_deserialize(c[k].data)
         IN  IF r.tag = "Err" THEN Out(c, Err("DeserializationError"), <<>>)
             ELSE Out(c, Ok(Some(r.val)), <<>>)

MemoryDriverHas(c, k, t) == Out(c, Ok(Bool(k \in DOMAIN c)), <<>>)

MemoryDriverPut(c, k, v, d, t) ==
    LET data == bitcode_serialize(v)
        expires_at == IF d.some THEN Some(t + d.v) ELSE None
    IN  Out(Insert(c, k, [data |-> data, expires_at |-> expires_at]), Ok(Unit), <<>>)

MemoryDriverForget(c, k) == Out(Remove(c, k), Ok(Unit), <<>>)

MemoryDriverFlush(c) == Out(Empty, Ok(Unit), <<>>)

(* ------------------------- DatabaseDriver ------------------------------ *)
\* the table "cache": a set of rows (key, value, expiration); key is the
\* primary key of the model CacheEntry
NoRows == {}

\* WHERE key = k AND (expiration IS NULL OR expiration > now)
DatabaseGetWhere(c, k, t) ==
    {r \in c : r.key = k /\ (~r.expiration.some \/ r.expiration.v > t)}

\* WHERE key = k AND expiration IS NULL OR expiration > now: the builder joins
\* the three clauses without a group, and AND binds tighter than OR
DatabaseHasWhere(c, k, t) ==
    {r \in c : (r.key = k /\ ~r.expiration.some)
                  \/ (r.expiration.some /\ r.expiration.v > t)}

\* a delete that removes nothing
DatabaseDelete_KeepsRows(c, k) == c

\* DELETE FROM cache WHERE key = k
DatabaseDelete(c, k) == {r \in c : r.key # k}

\* INSERT without the primary key being enforced
DatabaseCreate_NoPrimaryKey(c, row) == [table |-> c \cup {row}, result |-> Ok(Unit)]

\* INSERT: refused when a row with the same primary key is in the table
DatabaseCreate(c, row) ==
    IF \E r \in c : r.key = row.key
    THEN [table |-> c, result |-> Err("Database")]
    ELSE [table |-> c \cup {row}, result |-> Ok(Unit)]

DatabaseDriverGet(c, k, t) ==
    LET found == DatabaseGetWhere(c, k, t)
    IN  IF found = {} THEN Out(c, Ok(None), <<"select">>)
        ELSE LET entry == CHOOSE r \in found : TRUE
                 r == json_from_str(entry.value)
             IN  IF r.tag = "Err" THEN Out(c, Err("Serialize"), <<"select">>)
                 ELSE Out(c, Ok(Some(r.val)), <<"select">>)

DatabaseDriverHas(c, k, t) ==
    LET count == Cardinality(DatabaseHasWhere(c, k, t))
    IN  Out(c, Ok(Bool(count # 0)), <<"count">>)

DatabaseDriverPut(c, k, v, d, t) ==
    LET expiration == IF d.some THEN Some(t + d.v) ELSE None
        deleted == DatabaseDelete(c, k)
        row == [key |-> k, value |-> json_to_string(v), expiration |-> expiration]
        created == DatabaseCreate(deleted, row)
    IN  Out(created.table, created.result, <<"delete", "insert">>)

DatabaseDriverForget(c, k) == Out(DatabaseDelete(c, k), Ok(Unit), <<"delete">>)

DatabaseDriverFlush(c) == Out(NoRows, Ok(Unit), <<"delete">>)

(* --------------------------- RedisDriver ------------------------------- *)
\* the keyspace: name |-> (data, expire), expire the instant the server drops
\* the key; the server hides a key once that instant has passed
RedisVisible(c, name, t) ==
    name \in DOMAIN c /\ (c[name].expire.some => ~(t > c[name].expire.v))

RedisDriverGet(c, k, t) ==
    LET name == prefix \o k
    IN  IF ~RedisVisible(c, name, t) THEN Out(c, Ok(None), <<"GET">>)
        ELSE LET r == bitcode_deserialize(c[name].data)
             IN  IF r.tag = "Err" THEN Out(c, Err("Serialization"), <<"GET">>)
                 ELSE Out(c, Ok(Some(r.val)), <<"GET">>)

RedisDriverHas(c, k, t) ==
    Out(c, Ok(Bool(RedisVisible(c, prefix \o k, t))), <<"EXISTS">>)

\* SETEX refuses an expiry of 0 seconds ("invalid expire time")
RedisDriverPut(c, k, v, d, t) ==
    LET name == prefix \o k
        data == bitcode_serialize(v)
    IN  IF d.some
        THEN IF as_secs(d.v) = 0 THEN Out(c, Err("Redis"), <<"SETEX">>)
             ELSE Out(Insert(c, name, [data |-> data,
                                       expire |-> Some(t + from_secs(as_secs(d.v)))]),
                      Ok(Unit), <<"SETEX">>)
        ELSE Out(Insert(c, name, [data |-> data, expire |-> None]), Ok(Unit), <<"SET">>)

RedisDriverForget(c, k) == Out(Remove(c, prefix \o k), Ok(Unit), <<"DEL">>)

RedisDriverFlush(c) == Out(Empty, Ok(Unit), <<"FLUSHDB">>)

(* -------------------------- DynamoDBDriver ----------------------------- *)
\* AttributeValue: S, B, N or Null
AttrB(b) == [t |-> "B", b |-> b]
AttrN(n) == [t |-> "N", n |-> n]
AttrNull == [t |-> "NULL"]
as_n(a) == IF a.t = "N" THEN Ok(a.n) ELSE Err("not N")
as_b(a) == IF a.t = "B" THEN Ok(a.b) ELSE Err("not B")

\* the table: key attribute |-> item (value attribute, expiration attribute)
DynamoDBGetItem(c, k, t) ==
    LET name == prefix \o k
    IN  IF name \notin DOMAIN c THEN Out(c, Ok(None), <<"get_item">>)
        ELSE
          LET item == c[name]
              n == as_n(item.expires_at)
              secs == IF n.tag = "Ok" THEN parse(n.val) ELSE Err("not N")
          IN  IF secs.tag = "Err" THEN Out(c, Err("InvalidDataFormat"), <<"get_item">>)
              ELSE IF from_secs(secs.val) < t THEN Out(c, Ok(None), <<"get_item">>)
              ELSE LET data == as_b(item.value)
                   IN  IF data.tag = "Err"
                       THEN Out(c, Err("InvalidDataFormat"), <<"get_item">>)
                       ELSE Out(c, Ok(Some(data.val)), <<"get_item">>)

DynamoDBDriverGet(c, k, t) ==
    LET item == DynamoDBGetItem(c, k, t)
    IN  IF item.result.tag = "Err" \/ ~item.result.val.some THEN item
        ELSE LET r == bitcode_deserialize(item.result.val.v)
             IN  IF r.tag = "Err" THEN Out(c, Err("Serialization"), item.bcalls)
                 ELSE Out(c, Ok(Some(r.val)), item.bcalls)

DynamoDBDriverHas(c, k, t) ==
    LET item == DynamoDBGetItem(c, k, t)
    IN  IF item.result.tag = "Err" THEN item
        ELSE Out(c, Ok(Bool(item.result.val.some)), item.bcalls)

DynamoDBDriverPut(c, k, v, d, t) ==
    LET expires_at == IF d.some THEN Some(t + d.v) ELSE None
        item == [value |-> AttrB(bitcode_serialize(v)),
                 expires_at |-> IF expires_at.some
                                THEN AttrN(to_string(as_secs(expires_at.v)))
                                ELSE AttrNull]
    IN  Out(Insert(c, prefix \o k, item), Ok(Unit), <<"put_item">>)

\* delete_item is keyed by the bare key, without the prefix
DynamoDBDriverForget(c, k) == Out(Remove(c, k), Ok(Unit), <<"delete_item">>)

\* flush worked around by a scan and a delete of every item
DynamoDBDriverFlush_ScanAndDelete(c) == Out(Empty, Ok(Unit), <<"scan", "delete_item">>)

DynamoDBDriverFlush(c) == Out(c, Err("FlushNotSupported"), <<>>)

(* ----------------------------- NullDriver ------------------------------ *)
NullDriverGet(c, k, t) == Out(c, Ok(None), <<>>)
NullDriverHas(c, k, t) == Out(c, Ok(Bool(FALSE)), <<>>)
\* put keeping the entry in a map, as the in-memory driver does
NullDriverPut_Stores(c, k, v, d, t) ==
    Out(Insert(c, k, [data |-> bitcode_serialize(v), expires_at |-> d]), Ok(Unit), <<>>)

NullDriverPut(c, k, v, d, t) == Out(c, Ok(Unit), <<>>)
NullDriverForget(c, k) == Out(c, Ok(Unit), <<>>)
NullDriverFlush(c) == Out(c, Ok(Unit), <<>>)

(* ------------------- the Driver trait, by implementation --------------- *)
DriverGet(c, k, t) ==
    CASE driver = "memory" -> MemoryDriverGet(c, k, t)
      [] driver = "database" -> DatabaseDriverGet(c, k, t)
      [] driver = "redis" -> RedisDriverGet(c, k, t)
      [] driver = "dynamodb" -> DynamoDBDriverGet(c, k, t)
      [] driver = "null" -> NullDriverGet(c, k, t)

DriverHas(c, k, t) ==
    CASE driver = "memory" -> MemoryDriverHas(c, k, t)
      [] driver = "database" -> DatabaseDriverHas(c, k, t)
      [] driver = "redis" -> RedisDriverHas(c, k, t)
      [] driver = "dynamodb" -> DynamoDBDriverHas(c, k, t)
      [] driver = "null" -> NullDriverHas(c, k, t)

DriverPut(c, k, v, d, t) ==
    CASE driver = "memory" -> MemoryDriverPut(c, k, v, d, t)
      [] driver = "database" -> DatabaseDriverPut(c, k, v, d, t)
      [] driver = "redis" -> RedisDriverPut(c, k, v, d, t)
      [] driver = "dynamodb" -> DynamoDBDriverPut(c, k, v, d, t)
      [] driver = "null" -> NullDriverPut(c, k, v, d, t)

DriverForget(c, k) ==
    CASE driver = "memory" -> MemoryDriverForget(c, k)
      [] driver = "database" -> DatabaseDriverForget(c, k)
      [] driver = "redis" -> RedisDriverForget(c, k)
      [] driver = "dynamodb" -> DynamoDBDriverForget(c, k)
      [] driver = "null" -> NullDriverForget(c, k)

DriverFlush(c) ==
    CASE driver = "memory" -> MemoryDriverFlush(c)
      [] driver = "database" -> DatabaseDriverFlush(c)
      [] driver = "redis" -> RedisDriverFlush(c)
      [] driver = "dynamodb" -> DynamoDBDriverFlush(c)
      [] driver = "null" -> NullDriverFlush(c)

(* --------------------------- Cache facade ------------------------------ *)
\* the outcome of a facade call: as Out, with the Driver methods it called
FOut(c, r, dc, bc) == [cache |-> c, result |-> r, dcalls |-> dc, bcalls |-> bc]

CacheGet(c, k, t) ==
    LET g == DriverGet(c, k, t) IN FOut(g.cache, g.result, <<"get">>, g.bcalls)

CacheHas(c, k, t) ==
    LET h == DriverHas(c, k, t) IN FOut(h.cache, h.result, <<"has">>, h.bcalls)

CachePut(c, k, v, expiry, t) ==
    LET p == DriverPut(c, k, v, Some(expiry), t)
    IN  FOut(p.cache, p.result, <<"put">>, p.bcalls)

CacheForever(c, k, v, t) ==
    LET p == DriverPut(c, k, v, None, t)
    IN  FOut(p.cache, p.result, <<"put">>, p.bcalls)

CacheForget(c, k) ==
    LET f == DriverForget(c, k) IN FOut(f.cache, f.result, <<"forget">>, f.bcalls)

CacheFlush(c) ==
    LET f == DriverFlush(c) IN FOut(f.cache, f.result, <<"flush">>, f.bcalls)

CacheRemember(c, k, duration, v, t) ==
    LET g == DriverGet(c, k, t)
    IN  IF g.result.tag = "Err" THEN FOut(g.cache, g.result, <<"get">>, g.bcalls)
        ELSE IF g.result.val.some
        THEN FOut(g.cache, Ok(Value(g.result.val.v)), <<"get">>, g.bcalls)
        ELSE LET p == CachePut(g.cache, k, v, duration, t)
             IN  FOut(p.cache, IF p.result.tag = "Err" THEN p.result ELSE Ok(Value(v)),
                      <<"get">> \o p.dcalls, g.bcalls \o p.bcalls)

CacheRememberForever(c, k, v, t) ==
    LET g == DriverGet(c, k, t)
    IN  IF g.result.tag = "Err" THEN FOut(g.cache, g.result, <<"get">>, g.bcalls)
        ELSE IF g.result.val.some
        THEN FOut(g.cache, Ok(Value(g.result.val.v)), <<"get">>, g.bcalls)
        ELSE LET p == CacheForever(g.cache, k, v, t)
             IN  FOut(p.cache, IF p.result.tag = "Err" THEN p.result ELSE Ok(Value(v)),
                      <<"get">> \o p.dcalls, g.bcalls \o p.bcalls)

CachePull(c, k, t) ==
    LET g == CacheGet(c, k, t)
    IN  IF g.result.tag = "Err" \/ ~g.result.val.some THEN g
        ELSE LET f == CacheForget(g.cache, k)
             IN  FOut(f.cache, IF f.result.tag = "Err" THEN f.result ELSE g.result,
                      g.dcalls \o f.dcalls, g.bcalls \o f.bcalls)

CacheAdd(c, k, v, expiry, t) ==
    LET h == CacheHas(c, k, t)
    IN  IF h.result.tag = "Err" THEN h
        ELSE IF h.result.val.bool THEN FOut(h.cache, Ok(Bool(FALSE)), h.dcalls, h.bcalls)
        ELSE LET p == CachePut(h.cache, k, v, expiry, t)
             IN  FOut(p.cache, IF p.result.tag = "Err" THEN p.result ELSE Ok(Bool(TRUE)),
                      h.dcalls \o p.dcalls, h.bcalls \o p.bcalls)

(* ------------------------------ the system ----------------------------- *)
\* last: the most recent facade call: its name, its key, what it returned,
\* the Driver methods it called and the backend requests those sent.
\* written, flushed: history of the calls, kept for stating the properties:
\*   written[k] is the last successful write of k (its value and the instant
\*   its duration ends, None for a write without duration) that no later
\*   successful forget of k or flush has followed;
\*   flushed is the set of keys that were written when the last flush
\*   succeeded and have not been written since.
NoKey == <<>>
NoValue == <<>>

Called(o, method) == o.result.tag = "Ok" /\ method \in Range(o.dcalls)

Do(op, k, v, d, o) ==
    /\ cache' = o.cache
    /\ last' = [op |-> op, key |-> k, result |-> o.result,
                dcalls |-> o.dcalls, bcalls |-> o.bcalls]
    /\ written' = IF Called(o, "flush") THEN [x \in Keys |-> None]
                  ELSE IF Called(o, "put")
                  THEN [written EXCEPT ![k] =
                          Some([value |-> v,
                                until |-> IF d.some THEN Some(now + d.v) ELSE None])]
                  ELSE IF Called(o, "forget") THEN [written EXCEPT ![k] = None]
                  ELSE written
    /\ flushed' = IF Called(o, "flush") THEN {x \in Keys : written[x].some}
                  ELSE IF Called(o, "put") THEN flushed \ {k}
                  ELSE flushed
    /\ UNCHANGED <<driver, prefix, now, tasks>>

\* a caller's call in flight: the call and its arguments, the await it is
\* suspended at (pc), the expiration put computed and the Result once the
\* call has returned. before, between: history kept for stating the
\* properties: what get(key) returned when the delete of a put was sent, and
\* whether a get was answered while another caller's put of the same key was
\* between its delete and its insert.
Callers == {1, 2}
Pending == [tag |-> "Pending"]
Task(op, k, v, d, pc) ==
    [op |-> op, key |-> k, value |-> v, duration |-> d, pc |-> pc,
     expiration |-> None, result |-> Pending, before |-> Pending, between |-> FALSE]
Idle == Task("idle", NoKey, NoValue, None, "idle")

Init ==
    /\ driver \in Drivers
    /\ prefix \in (IF driver \in {"redis", "dynamodb"} THEN Prefixes ELSE {<<>>})
    /\ cache = (IF driver = "database" THEN NoRows ELSE Empty)
    /\ now = 0
    /\ last = [op |-> "new", key |-> NoKey, result |-> Ok(Unit),
               dcalls |-> <<>>, bcalls |-> <<>>]
    /\ written = [k \in Keys |-> None]
    /\ flushed = {}
    /\ tasks = [c \in Callers |-> Idle]

Get == \E k \in Keys : Do("get", k, NoValue, None, CacheGet(cache, k, now))

Has == \E k \in Keys : Do("has", k, NoValue, None, CacheHas(cache, k, now))

Put ==
    \E k \in Keys, v \in Values, d \in Durations :
        Do("put", k, v, Some(d), CachePut(cache, k, v, d, now))

Forever ==
    \E k \in Keys, v \in Values : Do("forever", k, v, None, CacheForever(cache, k, v, now))

Add ==
    \E k \in Keys, v \in Values, d \in Durations :
        Do("add", k, v, Some(d), CacheAdd(cache, k, v, d, now))

Remember ==
    \E k \in Keys, v \in Values, d \in Durations :
        Do("remember", k, v, Some(d), CacheRemember(cache, k, d, v, now))

RememberForever ==
    \E k \in Keys, v \in Values :
        Do("remember_forever", k, v, None, CacheRememberForever(cache, k, v, now))

Pull == \E k \in Keys : Do("pull", k, NoValue, None, CachePull(cache, k, now))

Forget == \E k \in Keys : Do("forget", k, NoValue, None, CacheForget(cache, k))

Flush == Do("flush", NoKey, NoValue, None, CacheFlush(cache))

\* the system clock moves on between calls
Tick ==
    /\ now < MaxTime
    /\ now' = now + 1
    /\ UNCHANGED <<driver, prefix, cache, last, written, flushed, tasks>>

Next ==
    \/ Get \/ Has \/ Put \/ Forever \/ Add \/ Remember \/ RememberForever
    \/ Pull \/ Forget \/ Flush \/ Tick

Spec == Init /\ [][Next]_vars

InitMemory == Init /\ driver = "memory"
InitDatabase == Init /\ driver = "database"
InitRedis == Init /\ driver = "redis"
InitDynamoDB == Init /\ driver = "dynamodb"
InitNull == Init /\ driver = "null"

SpecMemory == InitMemory /\ [][Next]_vars
SpecDatabase == InitDatabase /\ [][Next]_vars
SpecRedis == InitRedis /\ [][Next]_vars
SpecDynamoDB == InitDynamoDB /\ [][Next]_vars
SpecNull == InitNull /\ [][Next]_vars

(* ------------------ callers sharing one table, step by step ------------- *)
\* Several Cache<DatabaseDriver> values work on the same table. A call is
\* suspended at every await of a backend request, and the calls of the
\* other callers run in between.
\* caller 1 and caller 2 supply different values, and the duration of their
\* entries outlasts the clock, so that no race is decided by an expiry
ValueOf(c) == IF c = 1 THEN <<"b">> ELSE <<"b", "z">>
LongDuration == MaxDuration

Running(c) == tasks[c].pc \notin {"idle", "done"}

Goto(c, pc) == tasks' = [tasks EXCEPT ![c].pc = pc]

Return(c, r) == tasks' = [tasks EXCEPT ![c].pc = "done", ![c].result = r]

CallGet(c) ==
    /\ ~Running(c)
    /\ \E k \in Keys : tasks' = [tasks EXCEPT ![c] = Task("get", k, NoValue, None, "get")]
    /\ UNCHANGED <<driver, prefix, cache, now, last, written, flushed>>

CallPut(c) ==
    /\ ~Running(c)
    /\ \E k \in Keys, v \in {ValueOf(c)}, d \in {LongDuration} :
          tasks' = [tasks EXCEPT ![c] = Task("put", k, v, Some(d), "delete")]
    /\ UNCHANGED <<driver, prefix, cache, now, last, written, flushed>>

CallRemember(c) ==
    /\ ~Running(c)
    /\ \E k \in Keys, v \in {ValueOf(c)}, d \in {LongDuration} :
          tasks' = [tasks EXCEPT ![c] = Task("remember", k, v, Some(d), "get")]
    /\ UNCHANGED <<driver, prefix, cache, now, last, written, flushed>>

CallAdd(c) ==
    /\ ~Running(c)
    /\ \E k \in Keys, v \in {ValueOf(c)}, d \in {LongDuration} :
          tasks' = [tasks EXCEPT ![c] = Task("add", k, v, Some(d), "has")]
    /\ UNCHANGED <<driver, prefix, cache, now, last, written, flushed>>

\* remember that puts without looking at what get returned
AwaitGet_AlwaysPuts(c) ==
    LET t == tasks[c]
        g == DriverGet(cache, t.key, now)
    IN  /\ t.pc = "get"
        /\ IF t.op = "get"
           THEN tasks' = [tasks EXCEPT ![c].pc = "done", ![c].result = g.result]
           ELSE Goto(c, "delete")
        /\ UNCHANGED <<driver, prefix, cache, now, last, written, flushed>>

\* self.driver.get(key).await, in get and in remember
AwaitGet(c) ==
    LET t == tasks[c]
        g == DriverGet(cache, t.key, now)
    IN  /\ t.pc = "get"
        /\ IF t.op = "get"
           THEN tasks' = [tasks EXCEPT
                    ![c].pc = "done", ![c].result = g.result,
                    ![c].between = \E o \in Callers \ {c} :
                                      /\ tasks[o].pc = "insert" /\ tasks[o].key = t.key
                                      /\ tasks[o].before.tag = "Ok"
                                      /\ tasks[o].before.val.some]
           ELSE IF g.result.tag = "Err" THEN Return(c, g.result)
           ELSE IF g.result.val.some THEN Return(c, Ok(Value(g.result.val.v)))
           ELSE Goto(c, "delete")
        /\ UNCHANGED <<driver, prefix, cache, now, last, written, flushed>>

\* add that puts without looking at what has returned
AwaitHas_AlwaysPuts(c) ==
    /\ tasks[c].pc = "has"
    /\ Goto(c, "delete")
    /\ UNCHANGED <<driver, prefix, cache, now, last, written, flushed>>

\* self.driver.has(key).await, in add
AwaitHas(c) ==
    LET t == tasks[c]
        h == DriverHas(cache, t.key, now)
    IN  /\ t.pc = "has"
        /\ IF h.result.tag = "Err" THEN Return(c, h.result)
           ELSE IF h.result.val.bool THEN Return(c, Ok(Bool(FALSE)))
           ELSE Goto(c, "delete")
        /\ UNCHANGED <<driver, prefix, cache, now, last, written, flushed>>

\* DatabaseDriver::put up to its first await: the expiration, then the delete
AwaitDelete(c) ==
    LET t == tasks[c]
    IN  /\ t.pc = "delete"
        /\ cache' = DatabaseDelete(cache, t.key)
        /\ tasks' = [tasks EXCEPT
                ![c].pc = "insert",
                ![c].expiration = IF t.duration.some THEN Some(now + t.duration.v) ELSE None,
                ![c].before = DriverGet(cache, t.key, now).result]
        /\ UNCHANGED <<driver, prefix, now, last, written, flushed>>

\* DatabaseDriver::put from the delete to its return: the insert, and what
\* the facade call returns after the put
AwaitInsert(c) ==
    LET t == tasks[c]
        row == [key |-> t.key, value |-> json_to_string(t.value),
                expiration |-> t.expiration]
        created == DatabaseCreate(cache, row)
    IN  /\ t.pc = "insert"
        /\ cache' = created.table
        /\ Return(c, IF created.result.tag = "Err" THEN created.result
                     ELSE IF t.op = "remember" THEN Ok(Value(t.value))
                     ELSE IF t.op = "add" THEN Ok(Bool(TRUE))
                     ELSE Ok(Unit))
        /\ UNCHANGED <<driver, prefix, now, last, written, flushed>>

NextConcurrent ==
    \/ \E c \in Callers :
          \/ CallGet(c) \/ CallPut(c) \/ CallRemember(c) \/ CallAdd(c)
          \/ AwaitGet(c) \/ AwaitHas(c) \/ AwaitDelete(c) \/ AwaitInsert(c)
    \/ Tick

SpecConcurrent == InitDatabase /\ [][NextConcurrent]_vars

(* ------------------------- puts that fail ------------------------------- *)
\* A put can fail where the code has a `?`: at the encoding of a value whose
\* Serialize fails, and at each backend request. fault names the place.
MemoryFaults == {"encode"}
DatabaseFaults == {"delete", "encode", "insert"}

\* bitcode::serialize(value)? comes first, before the map is touched
MemoryDriverPutFailing(c, k, v, d, t, fault) == Out(c, Err("DeserializationError"), <<>>)

\* the delete is awaited first; the value is encoded after it, in the
\* CacheEntry literal handed to create
DatabaseDriverPutFailing(c, k, v, d, t, fault) ==
    LET deleted == DatabaseDelete(c, k)
    IN  IF fault = "delete" THEN Out(c, Err("Database"), <<"delete">>)
        ELSE IF fault = "encode" THEN Out(deleted, Err("Serialize"), <<"delete">>)
        ELSE Out(deleted, Err("Database"), <<"delete", "insert">>)

CachePutFailing(c, k, v, expiry, t, fault) ==
    LET p == IF driver = "memory"
             THEN MemoryDriverPutFailing(c, k, v, Some(expiry), t, fault)
             ELSE DatabaseDriverPutFailing(c, k, v, Some(expiry), t, fault)
    IN  FOut(p.cache, p.result, <<"put">>, p.bcalls)

PutFails ==
    \E k \in Keys, v \in Values, d \in Durations,
       fault \in (IF driver = "memory" THEN MemoryFaults ELSE DatabaseFaults) :
        Do("put", k, v, Some(d), CachePutFailing(cache, k, v, d, now, fault))

NextFailing == Next \/ PutFails

SpecMemoryFailing == InitMemory /\ [][NextFailing]_vars
SpecDatabaseFailing == InitDatabase /\ [][NextFailing]_vars

(* ------------------------------ properties ----------------------------- *)
\* what get(k) and has(k) return in the current state
GetNow(k) == DriverGet(cache, k, now).result
HasNow(k) == DriverHas(cache, k, now).result
IsSome(r) == r.tag = "Ok" /\ r.val.some

\* C1: in-memory driver: in every reachable state and for every key k, has(k)
\* returns true if and only if get(k) returns a value; has(k) is false for an
\* entry whose expiration has passed but which is still stored.
C1_HasIffGet ==
    driver = "memory" =>
        \A k \in Keys : HasNow(k) = Ok(Bool(IsSome(GetNow(k))))

\* C2: in-memory driver: after put(k, v, d) at time t with no later write,
\* forget or flush of k, get(k) returns v at every time before t + d and
\* absent at every time after t + d, the entry being still stored.
C2_PutThenExpires ==
    driver = "memory" =>
        \A k \in Keys :
            (written[k].some /\ written[k].v.until.some) =>
                /\ now < written[k].v.until.v => GetNow(k) = Ok(Some(written[k].v.value))
                /\ now > written[k].v.until.v => (GetNow(k) = Ok(None) /\ k \in DOMAIN cache)

\* a put with d > 0 whose duration has passed, read by get while still stored
C2_Witness ==
    /\ driver = "memory"
    /\ last.op = "get" /\ last.result = Ok(None)
    /\ last.key \in DOMAIN cache
    /\ written[last.key].some /\ written[last.key].v.until.some
    /\ now > written[last.key].v.until.v

\* C3: DynamoDB driver: an entry stored with no expiration (put with duration
\* None, facade forever) is returned by get and reported true by has at any
\* later time, also after a flush that failed as unsupported.
C3_ForeverReadable ==
    driver = "dynamodb" =>
        \A k \in Keys :
            (written[k].some /\ ~written[k].v.until.some) =>
                /\ GetNow(k) = Ok(Some(written[k].v.value))
                /\ HasNow(k) = Ok(Bool(TRUE))

\* C4: every storing driver, every key prefix: forget(k) followed immediately
\* by get(k) returns absent and has(k) returns false, whatever the prior
\* state of k.
C4_ForgetThenAbsent ==
    (driver # "null" /\ last.op = "forget" /\ last.result.tag = "Ok") =>
        /\ GetNow(last.key) = Ok(None)
        /\ HasNow(last.key) = Ok(Bool(FALSE))

\* a row of the table that is stored under k and has not expired
LiveRow(k) ==
    \E r \in cache : r.key = k /\ (~r.expiration.some \/ r.expiration.v > now)

\* C5: table-backed driver: has(k) is true if and only if a row exists with
\* key = k and (expiration is null or expiration > now), which is exactly
\* when get(k) returns a value; rows under other keys never change has(k).
C5_HasIffLiveRow ==
    driver = "database" =>
        \A k \in Keys :
            /\ HasNow(k) = Ok(Bool(LiveRow(k)))
            /\ HasNow(k) = Ok(Bool(IsSome(GetNow(k))))

\* C6: in-memory driver, no concurrency: add(k, v, d) returns true and stores
\* v with expiration d whenever k is absent (a key whose entry has expired
\* included); it returns false and writes nothing whenever k is present and
\* unexpired.
C6_Add ==
    [][\A k \in Keys, v \in Values, d \in Durations :
         (driver = "memory" /\ last'.op = "add"
            /\ Do("add", k, v, Some(d), CacheAdd(cache, k, v, d, now))) =>
            /\ GetNow(k) = Ok(None) =>
                 /\ last'.result = Ok(Bool(TRUE))
                 /\ k \in DOMAIN cache'
                 /\ cache'[k] = [data |-> bitcode_serialize(v),
                                 expires_at |-> Some(now + d)]
            /\ IsSome(GetNow(k)) =>
                 /\ last'.result = Ok(Bool(FALSE))
                 /\ "put" \notin Range(last'.dcalls)
                 /\ cache' = cache]_vars

\* a step that is remember(k, d, v) for some d, or remember_forever(k, v)
RememberStep(k, v) ==
    \/ /\ last'.op = "remember"
       /\ \E d \in Durations :
             Do("remember", k, v, Some(d), CacheRemember(cache, k, d, v, now))
    \/ /\ last'.op = "remember_forever"
       /\ Do("remember_forever", k, v, None, CacheRememberForever(cache, k, v, now))

\* C7: every storing driver, no concurrency: remember(k, d, v) returns the
\* stored value and writes nothing when get(k) returns a value; when k is
\* absent or expired it puts v and returns v, and a get(k) that follows
\* immediately returns v. remember_forever does the same without expiration.
C7_Remember ==
    [][\A k \in Keys, v \in Values :
         (driver # "null" /\ RememberStep(k, v)) =>
            /\ IsSome(GetNow(k)) =>
                 /\ last'.result = Ok(Value(GetNow(k).val.v))
                 /\ "put" \notin Range(last'.dcalls)
                 /\ cache' = cache
            /\ GetNow(k) = Ok(None) =>
                 /\ last'.result = Ok(Value(v))
                 /\ "put" \in Range(last'.dcalls)
                 /\ DriverGet(cache', k, now).result = Ok(Some(v))]_vars

\* C8: in-memory, table-backed and native-TTL drivers: after a flush that
\* succeeded, get(k) returns absent and has(k) returns false for every key k
\* that was stored before the flush, until k is written again.
C8_FlushedStayAbsent ==
    driver \in {"memory", "database", "redis"} =>
        \A k \in flushed : GetNow(k) = Ok(None) /\ HasNow(k) = Ok(Bool(FALSE))

\* C9: DynamoDB driver: flush in every state returns the FlushNotSupported
\* error, sends no backend request and leaves every stored item unchanged.
C9_FlushNotSupported ==
    [][(driver = "dynamodb" /\ last'.op = "flush" /\ now' = now) =>
          /\ last'.result = Err("FlushNotSupported")
          /\ last'.bcalls = <<>>
          /\ cache' = cache]_vars

\* a flush that was refused while items were stored
C9_Witness ==
    /\ driver = "dynamodb"
    /\ last.op = "flush" /\ last.result = Err("FlushNotSupported")
    /\ last.bcalls = <<>>
    /\ DOMAIN cache # {}

\* C10: every storing driver, no concurrency: pull(k) is get(k) then
\* forget(k): when get(k) returns a value, pull returns it and get(k) is
\* absent afterwards; when get(k) is absent, pull returns absent, calls no
\* forget and leaves storage unchanged.
C10_Pull ==
    [][\A k \in Keys :
         (driver # "null" /\ last'.op = "pull"
            /\ Do("pull", k, NoValue, None, CachePull(cache, k, now))) =>
            /\ IsSome(GetNow(k)) =>
                 /\ last'.result = GetNow(k)
                 /\ DriverGet(cache', k, now).result = Ok(None)
            /\ GetNow(k) = Ok(None) =>
                 /\ last'.result = Ok(None)
                 /\ "forget" \notin Range(last'.dcalls)
                 /\ cache' = cache]_vars

\* C11: no-op driver: every operation succeeds and has no effect: after any
\* sequence of put, forever, add, remember, forget and flush nothing is
\* stored, get(k) returns absent and has(k) returns false for every key k.
C11_NullNoEffect ==
    driver = "null" =>
        /\ last.result.tag = "Ok"
        /\ cache = Empty
        /\ last.op \in {"get", "pull"} => last.result = Ok(None)
        /\ last.op = "has" => last.result = Ok(Bool(FALSE))
        /\ \A k \in Keys : GetNow(k) = Ok(None) /\ HasNow(k) = Ok(Bool(FALSE))

\* a get of a key that a put was accepted for, answered absent
C11_Witness ==
    /\ driver = "null"
    /\ last.op = "get" /\ last.result = Ok(None)
    /\ written[last.key].some

\* C12: table-backed driver: put(k, v2, ..) runs as two separate backend
\* steps, delete-by-key then insert: in the state the delete leaves, where
\* the other callers (or nobody, after a crash) run next, get(k) is absent
\* also when k held a value before the put, and in the state a successful
\* insert leaves get(k) returns v2.
C12_PutTransientlyAbsent ==
    [][\A w \in Callers :
         /\ (tasks[w].pc = "delete" /\ tasks'[w].pc = "insert") =>
                DriverGet(cache', tasks[w].key, now).result = Ok(None)
         /\ (tasks[w].pc = "insert" /\ tasks'[w].pc = "done"
               /\ tasks'[w].result.tag = "Ok") =>
                DriverGet(cache', tasks[w].key, now).result = Ok(Some(tasks[w].value))]_vars

\* a put of a live key suspended between its delete and its insert, and a
\* get of that key by the other caller that was answered absent meanwhile
C12_Witness ==
    \E w \in Callers, r \in Callers :
        /\ tasks[w].op = "put" /\ tasks[w].pc = "insert" /\ IsSome(tasks[w].before)
        /\ tasks[r].op = "get" /\ tasks[r].pc = "done" /\ tasks[r].key = tasks[w].key
        /\ tasks[r].between /\ tasks[r].result = Ok(None)
        /\ GetNow(tasks[w].key) = Ok(None)

\* a call that went through DatabaseDriver::put and has returned
PutReturned(c) == tasks[c].pc = "done" /\ tasks[c].before.tag # "Pending"

C14_RememberNotAtomic ==
    [][\A c \in Callers :
         tasks[c].op = "remember" =>
           /\ (tasks[c].pc = "get" /\ tasks'[c] # tasks[c]) =>
                 /\ GetNow(tasks[c].key) = Ok(None) => tasks'[c].pc = "delete"
                 /\ IsSome(GetNow(tasks[c].key)) =>
                       /\ tasks'[c].pc = "done"
                       /\ tasks'[c].result = Ok(Value(GetNow(tasks[c].key).val.v))
           /\ (tasks[c].pc = "insert" /\ tasks'[c].pc = "done"
                 /\ tasks'[c].result.tag = "Ok") =>
                 /\ tasks'[c].result = Ok(Value(tasks[c].value))
                 /\ DriverGet(cache', tasks[c].key, now).result = Ok(Some(tasks[c].value))]_vars

\* two remembers of one key that both went on to put, so both missed in get
\* before either insert: each returned its own value, and the value stored
\* is not the one caller a returned
C14_Witness ==
    \E a \in Callers : \E b \in Callers \ {a} :
        /\ tasks[a].op = "remember" /\ tasks[b].op = "remember"
        /\ tasks[a].key = tasks[b].key
        /\ PutReturned(a) /\ PutReturned(b)
        /\ tasks[a].result = Ok(Value(tasks[a].value))
        /\ tasks[b].result = Ok(Value(tasks[b].value))
        /\ GetNow(tasks[a].key) = Ok(Some(tasks[b].value))
        /\ tasks[a].value # tasks[b].value

\* C15: add is not atomic: a caller whose has(k) returns false goes on to
\* put whatever the other caller is doing, so two callers can both pass the
\* check; each put that succeeds makes its add return true, a has(k) that
\* returns true makes add return false, and after two adds of one key that
\* both returned true one row with one of the two values is stored.
C15_AddNotAtomic ==
    [][\A c \in Callers :
         tasks[c].op = "add" =>
           /\ (tasks[c].pc = "has" /\ tasks'[c] # tasks[c]) =>
                 /\ HasNow(tasks[c].key) = Ok(Bool(FALSE)) => tasks'[c].pc = "delete"
                 /\ HasNow(tasks[c].key) = Ok(Bool(TRUE)) =>
                       tasks'[c].pc = "done" /\ tasks'[c].result = Ok(Bool(FALSE))
           /\ (tasks[c].pc = "insert" /\ tasks'[c].pc = "done"
                 /\ tasks'[c].result.tag = "Ok") =>
                 /\ tasks'[c].result = Ok(Bool(TRUE))
                 /\ \A o \in Callers \ {c} :
                       (tasks[o].op = "add" /\ tasks[o].pc = "done"
                          /\ tasks[o].key = tasks[c].key
                          /\ tasks[o].result = Ok(Bool(TRUE))) =>
                         {r.value : r \in {x \in cache' : x.key = tasks[c].key}}
                             = {json_to_string(tasks[c].value)}]_vars

\* two adds of one absent key that both passed the has check before either
\* put, and both returned true; one of the two values is stored
C15_Witness ==
    \E a \in Callers : \E b \in Callers \ {a} :
        /\ tasks[a].op = "add" /\ tasks[b].op = "add" /\ tasks[a].key = tasks[b].key
        /\ tasks[a].pc = "done" /\ tasks[b].pc = "done"
        /\ tasks[a].result = Ok(Bool(TRUE)) /\ tasks[b].result = Ok(Bool(TRUE))
        /\ {r.value : r \in {x \in cache : x.key = tasks[a].key}}
               = {json_to_string(tasks[b].value)}
        /\ tasks[a].value # tasks[b].value

\* a step that is put(k, v, d) with a duration d, or forever(k, v) with none
PutStep(k, v, d) ==
    \/ /\ last'.op = "put" /\ d.some
       /\ Do("put", k, v, d, CachePut(cache, k, v, d.v, now))
    \/ /\ last'.op = "forever" /\ ~d.some
       /\ Do("forever", k, v, d, CacheForever(cache, k, v, now))

\* the entry of k in store c is the one put(k, v, d) writes into an empty
\* store at this instant, and the only one for k
EntryAsFresh(c, k, v, d) ==
    IF driver = "database"
    THEN {r \in c : r.key = k} = DriverPut(NoRows, k, v, d, now).cache
    ELSE LET fresh == DriverPut(Empty, k, v, d, now).cache
         IN  \A n \in DOMAIN fresh : n \in DOMAIN c /\ c[n] = fresh[n]

\* C16: every storing driver: a successful put(k, v2, d2) replaces the whole
\* prior entry of k, live or expired: afterwards one entry exists for k,
\* get(k) returns v2, and the entry's expiration depends only on d2 and the
\* time of this put (none when d2 is None), never on the prior entry.
C16_PutReplaces ==
    [][\A k \in Keys, v \in Values, d \in {None} \cup {Some(x) : x \in Durations} :
         (driver # "null" /\ PutStep(k, v, d) /\ last'.result.tag = "Ok") =>
            /\ EntryAsFresh(cache', k, v, d)
            /\ DriverGet(cache', k, now).result = Ok(Some(v))]_vars

\* an entry of k is stored, written with a duration that has passed since
Expired(k) ==
    /\ (prefix \o k) \in DOMAIN cache
    /\ written[k].some /\ written[k].v.until.some /\ written[k].v.until.v < now

\* C17: in-memory and DynamoDB drivers: get and has never modify storage: a
\* get or has that finds an expired entry reports absence and leaves the
\* entry stored, and the stored entries change only through put, forget and
\* flush.
C17_ReadsDoNotModify ==
    [][(driver \in {"memory", "dynamodb"}) =>
        (/\ (last'.op \in {"get", "has"} /\ now' = now) =>
               /\ cache' = cache
               /\ Expired(last'.key) =>
                     /\ last'.op = "get" => last'.result = Ok(None)
                     /\ last'.op = "has" => last'.result = Ok(Bool(FALSE))
         /\ cache' # cache =>
               Range(last'.dcalls) \cap {"put", "forget", "flush"} # {})]_vars

\* C18: forget is idempotent: forget(k) returns success; on a key that is
\* absent (never stored, already forgotten, or flushed) it leaves storage
\* unchanged; and a second forget(k) leaves the state the first one left.
C18_ForgetIdempotent ==
    [][\A k \in Keys :
         (last'.op = "forget" /\ Do("forget", k, NoValue, None, CacheForget(cache, k))) =>
            /\ last'.result = Ok(Unit)
            /\ ~written[k].some => cache' = cache
            /\ CacheForget(cache', k).cache = cache']_vars

\* C19: every driver, every key prefix: put(k, ..) and forget(k) change only
\* the entry of the logical key k: for every other key k2 the results of
\* get(k2) and has(k2) are the same before and after the call.
C19_OtherKeysUntouched ==
    [][(last'.op \in {"put", "forever", "forget"} /\ now' = now) =>
          \A k2 \in Keys \ {last'.key} :
              /\ DriverGet(cache', k2, now).result = DriverGet(cache, k2, now).result
              /\ DriverHas(cache', k2, now).result = DriverHas(cache, k2, now).result]_vars

\* C20: in-memory and table-backed drivers: a put(k, v, d) that returns an
\* error (the value fails to encode, or a backend request of the write
\* fails) leaves the stored entry of k unchanged: get(k) returns afterwards
\* what it returned before the failed put.
C20_FailedPutKeepsEntry ==
    [][(driver \in {"memory", "database"} /\ last'.op = "put"
          /\ last'.result.tag = "Err" /\ now' = now) =>
            DriverGet(cache', last'.key, now).result
                = DriverGet(cache, last'.key, now).result]_vars

\* C21: DynamoDB driver, expiration stored as whole seconds: after
\* put(k, v, d) with d > 0 (d shorter than a second and a put part-way
\* through a second included), while the item is stored and not written
\* again, get(k) returns v and has(k) returns true at every instant before
\* d has elapsed.
C21_LiveUntilElapsed ==
    driver = "dynamodb" =>
        \A k \in Keys :
            (/\ written[k].some /\ written[k].v.until.some
             /\ (prefix \o k) \in DOMAIN cache
             /\ now < written[k].v.until.v) =>
                /\ GetNow(k) = Ok(Some(written[k].v.value))
                /\ HasNow(k) = Ok(Bool(TRUE))

\* C22: Redis driver, duration handed to the server as whole seconds:
\* put(k, v, d) with any d > 0 (d shorter than a second and d with a
\* fractional part included) succeeds, and while k is not written again,
\* forgotten or flushed get(k) returns v at every instant before d has
\* elapsed.
C22_PutSucceedsAndLives ==
    driver = "redis" =>
        /\ last.op = "put" => last.result = Ok(Unit)
        /\ \A k \in Keys :
              (written[k].some /\ written[k].v.until.some
                 /\ now < written[k].v.until.v) =>
                    GetNow(k) = Ok(Some(written[k].v.value))

====
